---------------------------- MODULE Spec2Model ----------------------------
(***************************************************************************)
(* A model of the supabase_connector package: the connection provider      *)
(* (client.py), the conversation accessors (conversation.py), the services *)
(* accessors (services.py) and the info accessors (info.py), together with *)
(* the hosted tables they query.                                           *)
(*                                                                         *)
(* Python values are tagged records: None, strings (sequences of           *)
(* one-character strings), integers, floats, booleans and dictionaries.    *)
(***************************************************************************)
EXTENDS Integers, Sequences, FiniteSets, TLC

\* ------------------------------------------------------------------ bounds
MaxCreated == 3      \* most clients created in one behaviour
MaxIds == 2          \* most rows the store is sent in one behaviour

\* ----------------------------------------------------------- Python values
PyNone == [t |-> "none"]
PyStr(s) == [t |-> "str", v |-> s]
PyInt(n) == [t |-> "int", v |-> n]
PyFloat(n) == [t |-> "float", v |-> n]
PyDict(d) == [t |-> "dict", v |-> d]
PyBool(b) == [t |-> "bool", v |-> b]

\* Python's truth value of an argument: None, "", 0 and {} are false.
Truthy(x) ==
    CASE x.t = "none" -> FALSE
      [] x.t = "str" -> x.v # <<>>
      [] x.t = "int" -> x.v # 0
      [] x.t = "float" -> x.v # 0
      [] OTHER -> TRUE

\* a or b
PyOr(a, b) == IF Truthy(a) THEN a ELSE b

IsSpace(c) == c = " "

RECURSIVE LStrip(_)
LStrip(s) ==
    IF s # <<>> /\ IsSpace(Head(s)) THEN LStrip(Tail(s)) ELSE s

RECURSIVE RStrip(_)
RStrip(s) ==
    IF s # <<>> /\ IsSpace(s[Len(s)]) THEN RStrip(SubSeq(s, 1, Len(s) - 1)) ELSE s

\* str.strip(): leading and trailing whitespace removed, inner whitespace kept.
Strip(s) == RStrip(LStrip(s))

\* ------------------------------------------------------------------ inputs
Messages == {"m1", "m2"}

\* session_id arguments: None, empty, blank, and two sessions in several
\* spellings.
SessionArgs ==
    {PyNone, PyStr(<<>>), PyStr(<<" ", " ">>), PyStr(<<"a">>), PyStr(<<" ", "a">>),
     PyStr(<<"a", " ", "b">>), PyStr(<<" ", "a", " ", "b", " ">>)}

\* message arguments: dictionaries, and values that are no dictionary.
MessageArgs == {PyDict(m) : m \in Messages} \cup {PyStr(<<"a">>)}

\* Credentials: missing, empty, or present.
EnvValues == {PyNone, PyStr(<<>>), PyStr(<<"e">>)}
CredArgs == {PyNone, PyStr(<<>>), PyStr(<<"x">>)}

\* Outcomes of one remote request.
RemoteOutcomes == {"ok", "fail"}

\* ------------------------------------------------------------------- state
VARIABLES
    env,               \* os.environ: SUPABASE_URL and SUPABASE_ANON_KEY
    global_connector,  \* client.py _global_connector (None or a connector)
    created,           \* every create_client(url, key) call so far, in order
    local,             \* the connector the caller last constructed directly
    conv,              \* rows of public.conversation_history
    chatbot_conv,      \* rows of chatbot.conversation_history
    next_id,           \* the store's next row id
    services,          \* rows of public.services
    info,              \* rows of public.info
    tables,            \* the tables the store has
    threads,           \* callers inside get_global_connector(), for each its
                       \* position, the connector it built and the one it got
    last               \* the last call: operation, arguments, outcome, requests

vars == <<env, global_connector, created, local, conv, chatbot_conv, next_id,
          services, info, tables, threads, last>>

NoConnector == [t |-> "none"]

\* ------------------------------------------------------- client.py: connector
\* Mutant: "and" in place of "or" in the credential check.
SupabaseConnectorEitherCredential(url, key, e, cr) ==
    LET rurl == PyOr(url, e.url)
        rkey == PyOr(key, e.key)
    IN IF ~Truthy(rurl) /\ ~Truthy(rkey)
       THEN [out |-> "ValueError", conn |-> NoConnector, created |-> cr]
       ELSE [out |-> "ok",
             conn |-> [t |-> "connector", id |-> Len(cr) + 1, url |-> rurl, key |-> rkey],
             created |-> Append(cr, [url |-> rurl, key |-> rkey])]

\* SupabaseConnector.__init__: resolve the credentials, validate, create_client.
\* Returns the outcome, the new connector and the extended create_client log.
SupabaseConnector(url, key, e, cr) ==
    LET rurl == PyOr(url, e.url)
        rkey == PyOr(key, e.key)
    IN IF ~Truthy(rurl) \/ ~Truthy(rkey)
       THEN [out |-> "ValueError", conn |-> NoConnector, created |-> cr]
       ELSE [out |-> "ok",
             conn |-> [t |-> "connector", id |-> Len(cr) + 1, url |-> rurl, key |-> rkey],
             created |-> Append(cr, [url |-> rurl, key |-> rkey])]

\* Mutant: the "is None" test left out, a new connector on every call.
get_global_connector_fresh(g, e, cr) ==
    LET c == SupabaseConnector(PyNone, PyNone, e, cr)
    IN [out |-> c.out, conn |-> c.conn, g |-> c.conn, created |-> c.created]

\* get_global_connector: construct on first use, reuse afterwards.
get_global_connector(g, e, cr) ==
    IF g = NoConnector
    THEN LET c == SupabaseConnector(PyNone, PyNone, e, cr)
         IN [out |-> c.out, conn |-> c.conn, g |-> c.conn, created |-> c.created]
    ELSE [out |-> "ok", conn |-> g, g |-> g, created |-> cr]

\* ------------------------------------------------ conversation.py: accessors
\* "if not session_id or not session_id.strip(): raise ValueError"
InvalidSessionId(sid) == ~Truthy(sid) \/ ~Truthy(PyStr(Strip(sid.v)))

\* isinstance(message, dict)
IsDict(m) == m.t = "dict"

\* Mutant: the session id stored as given.
InsertDataUnstripped(sid, msg) == [session_id |-> sid.v, message |-> msg.v]

\* The row add_conversation_history sends to the store.
InsertData(sid, msg) == [session_id |-> Strip(sid.v), message |-> msg.v]

\* Mutant: the session id compared as given.
SessionFilterUnstripped(sid) == sid.v

\* The value get_conversation_by_session / delete_conversation_history filter on.
SessionFilter(sid) == Strip(sid.v)

\* .eq('session_id', v) on a table
RowsOfSession(rows, v) == SelectSeq(rows, LAMBDA r : r.session_id = v)
RowsNotOfSession(rows, v) == SelectSeq(rows, LAMBDA r : r.session_id # v)

\* The table get_conversation_history selects from:
\* client.schema("chatbot").table('conversation_history').
HistoryTable == chatbot_conv

Req(table, verb, outcome) == [table |-> table, verb |-> verb, outcome |-> outcome]

Call(op, args, out, val, reqs) ==
    [op |-> op, args |-> args, out |-> out, val |-> val, reqs |-> reqs]

NoVal == [t |-> "none"]

\* Mutant: the validation placed after the connector is fetched.
RejectedAfterConnect(op, args) ==
    /\ last' = Call(op, args, "ValueError", NoVal, <<>>)
    /\ global_connector' = get_global_connector(global_connector, env, created).g
    /\ created' = get_global_connector(global_connector, env, created).created
    /\ UNCHANGED <<tables, threads, env, local, conv, chatbot_conv, next_id, services, info>>

\* A call rejected by its validation: nothing but the last call changes.
Rejected(op, args) ==
    /\ last' = Call(op, args, "ValueError", NoVal, <<>>)
    /\ UNCHANGED <<tables, threads, env, global_connector, created, local, conv, chatbot_conv, next_id,
                   services, info>>

\* get_conversation_history()
GetConversationHistory ==
    \E ro \in RemoteOutcomes :
        LET gc == get_global_connector(global_connector, env, created)
        IN /\ global_connector' = gc.g
           /\ created' = gc.created
           /\ last' = IF gc.out # "ok"
                      THEN Call("get_conversation_history", <<>>, "RuntimeError", NoVal, <<>>)
                      ELSE IF ro # "ok"
                      THEN Call("get_conversation_history", <<>>, "RuntimeError", NoVal,
                                <<Req("chatbot.conversation_history", "select *", ro)>>)
                      ELSE Call("get_conversation_history", <<>>, "ok", HistoryTable,
                                <<Req("chatbot.conversation_history", "select *", ro)>>)
           /\ UNCHANGED <<tables, threads, env, local, conv, chatbot_conv, next_id, services, info>>

\* add_conversation_history(session_id, message)
AddConversationHistory ==
    \E sid \in SessionArgs, msg \in MessageArgs, ro \in RemoteOutcomes :
        IF InvalidSessionId(sid) \/ ~IsDict(msg)
        THEN Rejected("add_conversation_history", <<sid, msg>>)
        ELSE LET gc == get_global_connector(global_connector, env, created)
                 row == [id |-> next_id] @@ InsertData(sid, msg)
                 rq == <<Req("public.conversation_history", "insert", ro)>>
             IN /\ global_connector' = gc.g
                /\ created' = gc.created
                /\ IF gc.out # "ok"
                   THEN /\ last' = Call("add_conversation_history", <<sid, msg>>,
                                        "RuntimeError", NoVal, <<>>)
                        /\ UNCHANGED <<conv, next_id>>
                   ELSE IF ro # "ok"
                   THEN /\ last' = Call("add_conversation_history", <<sid, msg>>,
                                        "RuntimeError", NoVal, rq)
                        /\ UNCHANGED <<conv, next_id>>
                   ELSE /\ next_id <= MaxIds
                        /\ conv' = Append(conv, row)
                        /\ next_id' = next_id + 1
                        /\ last' = Call("add_conversation_history", <<sid, msg>>,
                                        "ok", <<row>>, rq)
                /\ UNCHANGED <<tables, threads, env, local, chatbot_conv, services, info>>

\* Mutant: the rows read taken out of the table.
GetConversationBySessionConsuming ==
    \E sid \in SessionArgs, ro \in RemoteOutcomes :
        IF InvalidSessionId(sid)
        THEN Rejected("get_conversation_by_session", <<sid>>)
        ELSE LET gc == get_global_connector(global_connector, env, created)
                 rq == <<Req("public.conversation_history", "select *", ro)>>
             IN /\ global_connector' = gc.g
                /\ created' = gc.created
                /\ last' = IF gc.out # "ok"
                           THEN Call("get_conversation_by_session", <<sid>>,
                                     "RuntimeError", NoVal, <<>>)
                           ELSE IF ro # "ok"
                           THEN Call("get_conversation_by_session", <<sid>>,
                                     "RuntimeError", NoVal, rq)
                           ELSE Call("get_conversation_by_session", <<sid>>, "ok",
                                     RowsOfSession(conv, SessionFilter(sid)), rq)
                /\ conv' = IF gc.out = "ok" /\ ro = "ok"
                           THEN RowsNotOfSession(conv, SessionFilter(sid))
                           ELSE conv
                /\ UNCHANGED <<tables, threads, env, local, chatbot_conv, next_id, services, info>>

\* get_conversation_by_session(session_id)
GetConversationBySession ==
    \E sid \in SessionArgs, ro \in RemoteOutcomes :
        IF InvalidSessionId(sid)
        THEN Rejected("get_conversation_by_session", <<sid>>)
        ELSE LET gc == get_global_connector(global_connector, env, created)
                 rq == <<Req("public.conversation_history", "select *", ro)>>
             IN /\ global_connector' = gc.g
                /\ created' = gc.created
                /\ last' = IF gc.out # "ok"
                           THEN Call("get_conversation_by_session", <<sid>>,
                                     "RuntimeError", NoVal, <<>>)
                           ELSE IF ro # "ok"
                           THEN Call("get_conversation_by_session", <<sid>>,
                                     "RuntimeError", NoVal, rq)
                           ELSE Call("get_conversation_by_session", <<sid>>, "ok",
                                     RowsOfSession(conv, SessionFilter(sid)), rq)
                /\ UNCHANGED <<tables, threads, env, local, conv, chatbot_conv, next_id, services, info>>

\* delete_conversation_history(session_id)
DeleteConversationHistory ==
    \E sid \in SessionArgs, ro \in RemoteOutcomes :
        IF InvalidSessionId(sid)
        THEN Rejected("delete_conversation_history", <<sid>>)
        ELSE LET gc == get_global_connector(global_connector, env, created)
                 rq == <<Req("public.conversation_history", "delete", ro)>>
             IN /\ global_connector' = gc.g
                /\ created' = gc.created
                /\ IF gc.out # "ok"
                   THEN /\ last' = Call("delete_conversation_history", <<sid>>,
                                        "RuntimeError", NoVal, <<>>)
                        /\ UNCHANGED conv
                   ELSE IF ro # "ok"
                   THEN /\ last' = Call("delete_conversation_history", <<sid>>,
                                        "RuntimeError", NoVal, rq)
                        /\ UNCHANGED conv
                   ELSE /\ conv' = RowsNotOfSession(conv, SessionFilter(sid))
                        /\ last' = Call("delete_conversation_history", <<sid>>, "ok", TRUE, rq)
                /\ UNCHANGED <<tables, threads, env, local, chatbot_conv, next_id, services, info>>


\* ---------------------------------------------------- the store's text rules
\* The characters the model's strings are made of, in code-point order.
Ascii ==
    <<" ", "%",
      "A", "B", "C", "D", "E", "F", "G", "H", "I", "J", "K", "L", "M",
      "N", "O", "P", "Q", "R", "S", "T", "U", "V", "W", "X", "Y", "Z",
      "_",
      "a", "b", "c", "d", "e", "f", "g", "h", "i", "j", "k", "l", "m",
      "n", "o", "p", "q", "r", "s", "t", "u", "v", "w", "x", "y", "z">>

Code(c) == CHOOSE i \in 1..Len(Ascii) : Ascii[i] = c

\* Mutant: like in place of ilike, no case folding.
LowerAsIs(c) == c

\* Case folding, as ILIKE applies it.
Lower(c) == LET i == Code(c) IN IF i \in 3..28 THEN Ascii[i + 27] ELSE c

\* a < b, lexicographically by code point.
RECURSIVE StrLess(_, _)
StrLess(a, b) ==
    IF b = <<>> THEN FALSE
    ELSE IF a = <<>> THEN TRUE
    ELSE IF Head(a) = Head(b) THEN StrLess(Tail(a), Tail(b))
    ELSE Code(Head(a)) < Code(Head(b))

\* s ILIKE p: % matches any run of characters, _ any one character, every other
\* character itself without regard to case.
RECURSIVE ILike(_, _)
ILike(s, p) ==
    IF p = <<>> THEN s = <<>>
    ELSE IF Head(p) = "%"
         THEN ILike(s, Tail(p)) \/ (s # <<>> /\ ILike(Tail(s), p))
         ELSE /\ s # <<>>
              /\ (Head(p) = "_" \/ Lower(Head(p)) = Lower(Head(s)))
              /\ ILike(Tail(s), Tail(p))

\* ---------------------------------------------------- services.py: accessors
ServiceFilter(service_id, name, category, is_active, limit) ==
    [service_id |-> service_id, name |-> name, category |-> category,
     is_active |-> is_active, limit |-> limit]

NoFilter == ServiceFilter(PyNone, PyNone, PyNone, PyNone, PyNone)

\* f'%{name}%'
NamePattern(name) == <<"%">> \o name \o <<"%">>

\* Mutant: the category filter never added to the query.
MatchesFilterIgnoringCategory(r, f) ==
    /\ f.service_id.t = "none" \/ r.id = f.service_id.v
    /\ f.name.t = "none" \/ ILike(r.name, NamePattern(f.name.v))
    /\ f.is_active.t = "none" \/ r.is_active = f.is_active.v

\* Mutant: the is_active filter never added to the query.
MatchesFilterIgnoringActive(r, f) ==
    /\ f.service_id.t = "none" \/ r.id = f.service_id.v
    /\ f.name.t = "none" \/ ILike(r.name, NamePattern(f.name.v))
    /\ f.category.t = "none" \/ r.category = PyStr(f.category.v)

\* The filters get_services adds to the query, each only when its argument is
\* not None.
MatchesFilter(r, f) ==
    /\ f.service_id.t = "none" \/ r.id = f.service_id.v
    /\ f.name.t = "none" \/ ILike(r.name, NamePattern(f.name.v))
    /\ f.category.t = "none" \/ r.category = PyStr(f.category.v)
    /\ f.is_active.t = "none" \/ r.is_active = f.is_active.v

ServicesMatching(rows, f) == SelectSeq(rows, LAMBDA r : MatchesFilter(r, f))

\* .order('name'): every ordering of the rows that is ascending by name (the
\* store may return rows of equal name in any order).
RECURSIVE Orderings(_, _)
Orderings(rows, I) ==
    IF I = {} THEN {<<>>}
    ELSE UNION {{<<rows[i]>> \o rest : rest \in Orderings(rows, I \ {i})} :
                  i \in {j \in I : \A k \in I : ~StrLess(rows[k].name, rows[j].name)}}

OrderedByName(rows) == Orderings(rows, 1..Len(rows))

\* .limit(n): the store cuts the ordered result to its first n rows.
Limited(rows, limit) ==
    IF limit.t = "none" \/ limit.v >= Len(rows) THEN rows ELSE SubSeq(rows, 1, limit.v)

\* Mutant: the clauses applied in the order the builder adds them, the limit
\* cutting the rows before they are ordered.
ServicesResultsLimitFirst(rows, f) == OrderedByName(Limited(ServicesMatching(rows, f), f.limit))

\* What the store may answer to the query get_services builds.
ServicesResults(rows, f) == {Limited(o, f.limit) : o \in OrderedByName(ServicesMatching(rows, f))}

Result(out, val, reqs, gc) ==
    [out |-> out, val |-> val, reqs |-> reqs, g |-> gc.g, created |-> gc.created]

\* Mutant: a failed query answered with an empty list.
get_services_swallowing(f, g, cr, ro, res) ==
    LET gc == get_global_connector(g, env, cr)
        rq == <<Req("public.services", "select *", ro)>>
    IN IF gc.out # "ok" THEN Result("ok", <<>>, <<>>, gc)
       ELSE IF ro # "ok" THEN Result("ok", <<>>, rq, gc)
       ELSE Result("ok", res, rq, gc)

\* Mutant: the connector's ValueError let through as it is.
get_services_unwrapped(f, g, cr, ro, res) ==
    LET gc == get_global_connector(g, env, cr)
        rq == <<Req("public.services", "select *", ro)>>
    IN IF gc.out # "ok" THEN Result("ValueError", NoVal, <<>>, gc)
       ELSE IF ro # "ok" THEN Result("RuntimeError", NoVal, rq, gc)
       ELSE Result("ok", res, rq, gc)

\* get_services(service_id, name, category, is_active, limit), the store
\* answering ro and, when that is "ok", the rows res.
get_services(f, g, cr, ro, res) ==
    LET gc == get_global_connector(g, env, cr)
        rq == <<Req("public.services", "select *", ro)>>
    IN IF gc.out # "ok" THEN Result("RuntimeError", NoVal, <<>>, gc)
       ELSE IF ro # "ok" THEN Result("RuntimeError", NoVal, rq, gc)
       ELSE Result("ok", res, rq, gc)

\* sorted(list(set(...))) of the categories that are truthy
RECURSIVE SortedStrs(_)
SortedStrs(S) ==
    IF S = {} THEN <<>>
    ELSE LET m == CHOOSE x \in S : \A y \in S : ~StrLess(y, x)
         IN <<m>> \o SortedStrs(S \ {m})

\* Mutant: every category that is a string kept, the empty one too.
CategoriesOfStrings(rows) ==
    SortedStrs({rows[i].category.v : i \in {j \in 1..Len(rows) : rows[j].category.t = "str"}})

Categories(rows) ==
    SortedStrs({rows[i].category.v : i \in {j \in 1..Len(rows) : Truthy(rows[j].category)}})

\* Mutant: a failed request sent a second time before giving up.
get_service_categories_retrying(g, cr, rows, ro) ==
    LET gc == get_global_connector(g, env, cr)
        rq == <<Req("public.services", "select category", ro)>>
    IN IF gc.out # "ok" THEN Result("RuntimeError", NoVal, <<>>, gc)
       ELSE IF ro # "ok" THEN Result("RuntimeError", NoVal, rq \o rq, gc)
       ELSE Result("ok", Categories(rows), rq, gc)

\* get_service_categories()
get_service_categories(g, cr, rows, ro) ==
    LET gc == get_global_connector(g, env, cr)
        rq == <<Req("public.services", "select category", ro)>>
    IN IF gc.out # "ok" THEN Result("RuntimeError", NoVal, <<>>, gc)
       ELSE IF ro # "ok" THEN Result("RuntimeError", NoVal, rq, gc)
       ELSE Result("ok", Categories(rows), rq, gc)

\* s.get(field, default): the default only when the row has no such field.
Get(r, field, default) == IF field \in DOMAIN r THEN r[field] ELSE default

\* "x or 0" on a number or None
OrZero(x) == IF Truthy(x) THEN x.v ELSE 0

RECURSIVE SumOf(_, _)
SumOf(rows, field) ==
    IF rows = <<>> THEN 0
    ELSE OrZero(Get(Head(rows), field, PyInt(0))) + SumOf(Tail(rows), field)

\* Mutant: the division without its "if active_services else 0".
AverageUnguarded(rows, field) == [num |-> SumOf(rows, field), den |-> Len(rows)]

\* sum / len, kept as the exact fraction; 0 when there is no active service.
Average(rows, field) ==
    IF rows = <<>> THEN [num |-> 0, den |-> 1]
    ELSE [num |-> SumOf(rows, field), den |-> Len(rows)]

\* category_counts: one bucket per service.get('category', 'Unknown')
CategoryKey(r) == Get(r, "category", PyStr(<<"U", "n", "k", "n", "o", "w", "n">>))

\* Mutant: the services without a category left out of the buckets.
CategoryCountsOfCategorised(rows) ==
    LET keys == {CategoryKey(rows[i]) : i \in {j \in 1..Len(rows) : Truthy(CategoryKey(rows[j]))}}
    IN [k \in keys |-> Cardinality({i \in 1..Len(rows) : CategoryKey(rows[i]) = k})]

CategoryCounts(rows) ==
    LET keys == {CategoryKey(rows[i]) : i \in 1..Len(rows)}
    IN [k \in keys |-> Cardinality({i \in 1..Len(rows) : CategoryKey(rows[i]) = k})]

\* Mutant: total_categories taken from the buckets.
SummaryCountingBuckets(all_services, categories) ==
    LET active_services == SelectSeq(all_services, LAMBDA s : Get(s, "is_active", FALSE))
    IN [total_services |-> Len(all_services),
        active_services |-> Len(active_services),
        inactive_services |-> Len(all_services) - Len(active_services),
        total_categories |-> Cardinality(DOMAIN CategoryCounts(all_services)),
        categories |-> categories,
        services_by_category |-> CategoryCounts(all_services),
        average_price |-> Average(active_services, "price"),
        average_duration |-> Average(active_services, "duration_minutes")]

\* Mutant: the partition inverted, the inactive services taken for the active.
SummaryOfInactive(all_services, categories) ==
    LET active_services == SelectSeq(all_services, LAMBDA s : ~Get(s, "is_active", FALSE))
    IN [total_services |-> Len(all_services),
        active_services |-> Len(active_services),
        inactive_services |-> Len(all_services) - Len(active_services),
        total_categories |-> Len(categories),
        categories |-> categories,
        services_by_category |-> CategoryCounts(all_services),
        average_price |-> Average(active_services, "price"),
        average_duration |-> Average(active_services, "duration_minutes")]

\* Mutant: the averages taken over all services.
SummaryAveragingAll(all_services, categories) ==
    LET active_services == SelectSeq(all_services, LAMBDA s : Get(s, "is_active", FALSE))
    IN [total_services |-> Len(all_services),
        active_services |-> Len(active_services),
        inactive_services |-> Len(all_services) - Len(active_services),
        total_categories |-> Len(categories),
        categories |-> categories,
        services_by_category |-> CategoryCounts(all_services),
        average_price |-> Average(all_services, "price"),
        average_duration |-> Average(all_services, "duration_minutes")]

Summary(all_services, categories) ==
    LET active_services == SelectSeq(all_services, LAMBDA s : Get(s, "is_active", FALSE))
    IN [total_services |-> Len(all_services),
        active_services |-> Len(active_services),
        inactive_services |-> Len(all_services) - Len(active_services),
        total_categories |-> Len(categories),
        categories |-> categories,
        services_by_category |-> CategoryCounts(all_services),
        average_price |-> Average(active_services, "price"),
        average_duration |-> Average(active_services, "duration_minutes")]

\* get_services_summary(): get_services(), then get_service_categories(); an
\* error of either is caught and raised again as RuntimeError.
get_services_summary(g, cr, rows, ro1, res, ro2) ==
    LET a == get_services(NoFilter, g, cr, ro1, res)
        c == get_service_categories(a.g, a.created, rows, ro2)
    IN IF a.out # "ok" THEN a
       ELSE IF c.out # "ok"
       THEN [c EXCEPT !.reqs = a.reqs \o c.reqs]
       ELSE [c EXCEPT !.val = Summary(a.val, c.val), !.reqs = a.reqs \o c.reqs]

\* The rows the services table may hold.
MaxServices == 3
Spa == <<"s", "p", "a">>
Hair == <<"h", "a", "i", "r">>

ServicePool ==
    <<[id |-> 1, name |-> <<"B", "a">>, category |-> PyStr(Spa), price |-> PyInt(80),
       duration_minutes |-> PyInt(60), is_active |-> TRUE],
      [id |-> 2, name |-> <<"a", "b">>, category |-> PyStr(Hair), price |-> PyNone,
       duration_minutes |-> PyInt(30), is_active |-> FALSE],
      [id |-> 3, name |-> <<"a", "b">>, category |-> PyNone, price |-> PyInt(20),
       duration_minutes |-> PyNone, is_active |-> TRUE],
      [id |-> 4, name |-> <<"A">>, category |-> PyStr(Spa), price |-> PyInt(40),
       duration_minutes |-> PyInt(20), is_active |-> FALSE]>>

ServiceTables ==
    {SelectSeq(ServicePool, LAMBDA r : r.id \in S) :
        S \in {T \in SUBSET (1..Len(ServicePool)) : Cardinality(T) <= MaxServices}}

\* The services of the package's documented examples.
Massage == <<"M", "a", "s", "s", "a", "g", "e">>
HotStoneMassage ==
    [id |-> 7, name |-> <<"H", "o", "t", " ", "S", "t", "o", "n", "e", " ">> \o Massage,
     category |-> PyStr(Spa), price |-> PyInt(80), duration_minutes |-> PyInt(60),
     is_active |-> TRUE]
DeepTissueMassage(is_active) ==
    [id |-> 8, name |-> <<"D", "e", "e", "p", " ", "T", "i", "s", "s", "u", "e", " ">> \o Massage,
     category |-> PyStr(Spa), price |-> PyInt(40), duration_minutes |-> PyNone,
     is_active |-> is_active]

\* A service of a table that has no price and no duration column.
BareService == [id |-> 5, name |-> <<"c">>, category |-> PyStr(Hair), is_active |-> TRUE]

\* A service whose category is the empty string.
UncategorisedService ==
    [id |-> 6, name |-> <<"d">>, category |-> PyStr(<<>>), price |-> PyInt(10),
     duration_minutes |-> PyInt(10), is_active |-> TRUE]

ExampleTables ==
    {<<BareService>>, <<UncategorisedService, ServicePool[1]>>, <<HotStoneMassage>>, <<DeepTissueMassage(TRUE)>>, <<DeepTissueMassage(FALSE)>>,
     <<HotStoneMassage, DeepTissueMassage(TRUE)>>,
     <<ServicePool[2], DeepTissueMassage(FALSE), HotStoneMassage>>}

\* Arguments callers pass to the services accessors.
ServiceIdArgs ==
    {PyNone, PyInt(-5), PyInt(0), PyInt(1), PyInt(3), PyInt(9), PyFloat(1), PyStr(<<"a">>)}
NameArgs ==
    {PyNone, PyStr(<<>>), PyStr(<<" ">>), PyStr(<<"a">>), PyStr(<<"A">>),
     PyStr(<<" ", "b">>), PyStr(<<"_">>), PyStr(<<"x">>)}
\* The names the documented examples search for.
ExampleNameArgs ==
    {PyStr(<<"m", "a", "s", "s", "a", "g", "e">>),
     PyStr(<<"M", "A", "S", "S", "A", "G", "E">>),
     PyStr(<<"s", "t", "o", "n", "e">>)}
CategoryArgs ==
    {PyNone, PyStr(<<>>), PyStr(<<" ">>), PyStr(Spa), PyStr(<<" ">> \o Spa), PyStr(Hair)}
ActiveFlags == {PyBool(TRUE), PyBool(FALSE)}
ActiveArgs == {PyNone} \cup ActiveFlags
LimitArgs == {PyNone, PyInt(0), PyInt(1), PyInt(2)}

\* Filters of direct get_services calls: every combination of an id, a name, a
\* category, a status and a limit, each given or left out.
FilterArgs ==
    {ServiceFilter(i, n, c, a, l) :
        i \in {PyNone, PyInt(1)},
        n \in {PyNone, PyStr(<<"a">>)},
        c \in {PyNone, PyStr(Spa)},
        a \in ActiveArgs,
        l \in {PyNone, PyInt(1)}}

\* Filters whose name holds a character the store's pattern language gives a
\* meaning to.
PatternFilterArgs ==
    {ServiceFilter(PyNone, n, PyNone, a, l) :
        n \in {PyStr(<<"_">>), PyStr(<<"%">>)},
        a \in {PyNone, PyBool(TRUE)},
        l \in {PyNone, PyInt(1)}}

\* One call of a services accessor: the connector and the last call change, the
\* tables do not.
ServicesCall(op, args, r) ==
    /\ global_connector' = r.g
    /\ created' = r.created
    /\ last' = Call(op, args, r.out, r.val, r.reqs)
    /\ UNCHANGED <<tables, threads, env, local, conv, chatbot_conv, next_id, services, info>>

\* get_services(...) with a filter of F
GetServicesOf(F) ==
    \E f \in F, ro \in RemoteOutcomes :
        \E res \in ServicesResults(services, f) :
            ServicesCall("get_services", <<f>>,
                         get_services(f, global_connector, created, ro, res))

GetServices == GetServicesOf(FilterArgs)

\* Mutant: "<" in place of "<=", zero accepted.
InvalidServiceIdNegative(service_id) == service_id.t # "int" \/ service_id.v < 0

\* "not isinstance(service_id, int) or service_id <= 0"
InvalidServiceId(service_id) == service_id.t # "int" \/ service_id.v <= 0

\* "services[0] if services else None"
FirstOrNone(r) == IF r.out = "ok" THEN [r EXCEPT !.val = IF r.val = <<>> THEN PyNone ELSE r.val[1]] ELSE r

\* get_service_by_id(service_id)
GetServiceById ==
    \E service_id \in ServiceIdArgs, ro \in RemoteOutcomes :
        IF InvalidServiceId(service_id)
        THEN Rejected("get_service_by_id", <<service_id>>)
        ELSE LET f == ServiceFilter(service_id, PyNone, PyNone, PyNone, PyNone)
             IN \E res \in ServicesResults(services, f) :
                    ServicesCall("get_service_by_id", <<service_id>>,
                                 FirstOrNone(get_services(f, global_connector, created, ro, res)))

\* "if not category or not category.strip()" / "if not name or not name.strip()"
InvalidText(x) == ~Truthy(x) \/ ~Truthy(PyStr(Strip(x.v)))

\* get_services_by_category(category, is_active=True)
GetServicesByCategory ==
    \E category \in CategoryArgs, is_active \in ActiveFlags, ro \in RemoteOutcomes :
        IF InvalidText(category)
        THEN Rejected("get_services_by_category", <<category, is_active>>)
        ELSE LET f == ServiceFilter(PyNone, PyNone, PyStr(Strip(category.v)), is_active, PyNone)
             IN \E res \in ServicesResults(services, f) :
                    ServicesCall("get_services_by_category", <<category, is_active>>,
                                 get_services(f, global_connector, created, ro, res))

\* search_services_by_name(name, is_active=True)
SearchServicesByNameOf(N) ==
    \E name \in N, is_active \in ActiveFlags, ro \in RemoteOutcomes :
        IF InvalidText(name)
        THEN Rejected("search_services_by_name", <<name, is_active>>)
        ELSE LET f == ServiceFilter(PyNone, PyStr(Strip(name.v)), PyNone, is_active, PyNone)
             IN \E res \in ServicesResults(services, f) :
                    ServicesCall("search_services_by_name", <<name, is_active>>,
                                 get_services(f, global_connector, created, ro, res))

SearchServicesByName == SearchServicesByNameOf(NameArgs)

\* get_active_services(limit=None)
GetActiveServices ==
    \E limit \in LimitArgs, ro \in RemoteOutcomes :
        LET f == ServiceFilter(PyNone, PyNone, PyNone, PyBool(TRUE), limit)
        IN \E res \in ServicesResults(services, f) :
               ServicesCall("get_active_services", <<limit>>,
                            get_services(f, global_connector, created, ro, res))

GetServiceCategories ==
    \E ro \in RemoteOutcomes :
        ServicesCall("get_service_categories", <<>>,
                     get_service_categories(global_connector, created, services, ro))

GetServicesSummary ==
    \E ro1 \in RemoteOutcomes, ro2 \in RemoteOutcomes :
        \E res \in ServicesResults(services, NoFilter) :
            ServicesCall("get_services_summary", <<>>,
                         get_services_summary(global_connector, created, services, ro1, res, ro2))

\* ---------------------------------------------------------- info.py: accessors
InfoFields == {"id", "name", "phone", "address", "email", "description", "created_at"}

FullInfo ==
    [id |-> PyInt(1), name |-> PyStr(<<"C">>), phone |-> PyStr(<<"p">>),
     address |-> PyStr(<<"a">>), email |-> PyStr(<<"e">>), description |-> PyNone,
     created_at |-> PyStr(<<"t">>)]
PartialInfo == [id |-> PyInt(2), name |-> PyStr(<<"D">>)]

\* The rows the info table may hold.
InfoTables == {<<>>, <<FullInfo>>, <<PartialInfo>>, <<PartialInfo, FullInfo>>}

\* Mutant: the exception raised again, as the other accessors do.
get_info_raising(g, cr, rows, ro) ==
    LET gc == get_global_connector(g, env, cr)
        rq == <<Req("public.info", "select *", ro)>>
    IN IF gc.out # "ok" THEN Result("RuntimeError", NoVal, <<>>, gc)
       ELSE IF ro # "ok" THEN Result("RuntimeError", NoVal, rq, gc)
       ELSE IF Len(rows) > 0 THEN Result("ok", rows[1], rq, gc)
       ELSE Result("ok", PyNone, rq, gc)

\* Mutant: the last row in place of the first.
get_info_last_row(g, cr, rows, ro) ==
    LET gc == get_global_connector(g, env, cr)
        rq == <<Req("public.info", "select *", ro)>>
    IN IF gc.out # "ok" THEN Result("ok", PyNone, <<>>, gc)
       ELSE IF ro # "ok" THEN Result("ok", PyNone, rq, gc)
       ELSE IF Len(rows) > 0 THEN Result("ok", rows[Len(rows)], rq, gc)
       ELSE Result("ok", PyNone, rq, gc)

\* get_info(): the first row, or None; every exception is caught and None
\* returned.
get_info(g, cr, rows, ro) ==
    LET gc == get_global_connector(g, env, cr)
        rq == <<Req("public.info", "select *", ro)>>
    IN IF gc.out # "ok" THEN Result("ok", PyNone, <<>>, gc)
       ELSE IF ro # "ok" THEN Result("ok", PyNone, rq, gc)
       ELSE IF Len(rows) > 0 THEN Result("ok", rows[1], rq, gc)
       ELSE Result("ok", PyNone, rq, gc)

\* "info.get(field) if info else None"
Project(i, field) == IF i = PyNone THEN PyNone ELSE Get(i, field, PyNone)

\* get_info_name() and the other field accessors
get_info_field(field, g, cr, rows, ro) ==
    LET r == get_info(g, cr, rows, ro)
    IN [r EXCEPT !.val = Project(r.val, field)]

InfoCall(op, args, r) ==
    /\ global_connector' = r.g
    /\ created' = r.created
    /\ last' = Call(op, args, r.out, r.val, r.reqs)
    /\ UNCHANGED <<tables, threads, env, local, conv, chatbot_conv, next_id, services, info>>

GetInfo ==
    \E ro \in RemoteOutcomes :
        InfoCall("get_info", <<>>, get_info(global_connector, created, info, ro))

GetInfoField ==
    \E field \in InfoFields, ro \in RemoteOutcomes :
        InfoCall("get_info_field", <<field>>,
                 get_info_field(field, global_connector, created, info, ro))

\* ------------------------------------------------------ utils.py: helpers
\* list_available_tables: common_tables, in the public schema
common_tables ==
    <<"public.conversation_history", "public.users", "public.profiles",
      "public.messages", "public.chat", "public.sessions", "public.logs",
      "public.settings", "public.test">>

\* table_name arguments
TableArgs == {"public.conversation_history", "public.services", "public.users"}

\* The rows of a table the store has.
TableRows(table_name) ==
    CASE table_name = "public.conversation_history" -> conv
      [] table_name = "public.services" -> services
      [] table_name = "public.info" -> info
      [] OTHER -> <<>>

\* The answer to a request on table_name when the transport's outcome is ro:
\* the store refuses a request on a table it does not have.
Answer(table_name, tbls, ro) == IF table_name \in tbls THEN ro ELSE "fail"

\* check_table_exists(table_name): True if the query returns, False if
\* anything raises.
check_table_exists(table_name, g, cr, tbls, ro) ==
    LET gc == get_global_connector(g, env, cr)
        a == Answer(table_name, tbls, ro)
        rq == <<Req(table_name, "select * limit 1", a)>>
    IN IF gc.out # "ok" THEN Result("ok", FALSE, <<>>, gc)
       ELSE Result("ok", a = "ok", rq, gc)

\* get_table_info(table_name), the store answering with the rows sample (at
\* most one, because of limit(1)).
get_table_info(table_name, g, cr, tbls, ro, sample) ==
    LET gc == get_global_connector(g, env, cr)
        a == Answer(table_name, tbls, ro)
        rq == <<Req(table_name, "select * limit 1", a)>>
    IN IF gc.out # "ok" THEN Result("ok", PyNone, <<>>, gc)
       ELSE IF a # "ok" THEN Result("ok", PyNone, rq, gc)
       ELSE Result("ok",
                   [table_name |-> table_name, exists |-> TRUE,
                    sample_record |-> IF sample = <<>> THEN PyNone ELSE sample[1],
                    record_count |-> Len(sample)],
                   rq, gc)

\* What limit(1) without an order may return: no row of an empty table, any
\* one row otherwise.
Samples(rows) == IF rows = <<>> THEN {<<>>} ELSE {<<rows[i]>> : i \in 1..Len(rows)}

\* list_available_tables(): check_table_exists on each of common_tables in
\* turn, ros[i] the transport's outcome of the i-th.
RECURSIVE list_available_tables(_, _, _, _, _)
list_available_tables(i, g, cr, tbls, ros) ==
    IF i > Len(common_tables)
    THEN [out |-> "ok", val |-> <<>>, reqs |-> <<>>, g |-> g, created |-> cr]
    ELSE LET c == check_table_exists(common_tables[i], g, cr, tbls, ros[i])
             rest == list_available_tables(i + 1, c.g, c.created, tbls, ros)
         IN [rest EXCEPT !.val = (IF c.val THEN <<common_tables[i]>> ELSE <<>>) \o rest.val,
                         !.reqs = c.reqs \o rest.reqs]

\* The transport during one list_available_tables(): up, down, or failing on
\* one request only.
TransportRuns ==
    {[i \in 1..Len(common_tables) |-> "ok"], [i \in 1..Len(common_tables) |-> "fail"],
     [i \in 1..Len(common_tables) |-> IF i = 1 THEN "fail" ELSE "ok"]}

\* create_conversation_history_table(): "For now, we'll just check if it
\* exists."
create_conversation_history_table(g, cr, tbls, ro) ==
    check_table_exists("public.conversation_history", g, cr, tbls, ro)

\* One call of a helper: the connector and the last call change, the store
\* does not.
UtilsCall(op, args, r) ==
    /\ global_connector' = r.g
    /\ created' = r.created
    /\ last' = Call(op, args, r.out, r.val, r.reqs)
    /\ UNCHANGED <<tables, threads, env, local, conv, chatbot_conv, next_id, services, info>>

CheckTableExists ==
    \E table_name \in TableArgs, ro \in RemoteOutcomes :
        UtilsCall("check_table_exists", <<table_name>>,
                  check_table_exists(table_name, global_connector, created, tables, ro))

GetTableInfo ==
    \E table_name \in TableArgs, ro \in RemoteOutcomes :
        \E sample \in Samples(TableRows(table_name)) :
            UtilsCall("get_table_info", <<table_name>>,
                      get_table_info(table_name, global_connector, created, tables, ro, sample))

ListAvailableTables ==
    \E ros \in TransportRuns :
        UtilsCall("list_available_tables", <<>>,
                  list_available_tables(1, global_connector, created, tables, ros))

CreateConversationHistoryTable ==
    \E ro \in RemoteOutcomes :
        UtilsCall("create_conversation_history_table", <<>>,
                  create_conversation_history_table(global_connector, created, tables, ro))

\* ------------------------------------------------- client.py: direct use
ProbeOutcomes == {"ok", "network", "auth", "timeout"}

\* connector = SupabaseConnector(url, key), called by the application itself.
Construct ==
    \E url \in CredArgs, key \in CredArgs :
        LET c == SupabaseConnector(url, key, env, created)
        IN /\ Len(created) < MaxCreated
           /\ created' = c.created
           /\ local' = IF c.out = "ok" THEN c.conn ELSE local
           /\ last' = Call("SupabaseConnector", <<url, key>>, c.out, c.conn, <<>>)
           /\ UNCHANGED <<tables, threads, env, global_connector, conv, chatbot_conv, next_id, services, info>>

\* Mutant: no try around the probe.
test_connection_unguarded(po) ==
    IF po = "ok" THEN [out |-> "ok", val |-> TRUE] ELSE [out |-> "Exception", val |-> NoVal]

\* SupabaseConnector.test_connection: True if auth.get_user() returns, False if
\* it raises.
test_connection(po) == [out |-> "ok", val |-> (po = "ok")]

TestConnection ==
    \E c \in {local, global_connector} \ {NoConnector}, po \in ProbeOutcomes :
        LET r == test_connection(po)
        IN /\ last' = Call("test_connection", <<c>>, r.out, r.val, <<Req("auth", "get_user", po)>>)
           /\ UNCHANGED <<tables, threads, env, global_connector, created, local, conv, chatbot_conv, next_id,
                          services, info>>

\* ------------------------------------------------------------ specifications
\* The tables the accessors of the package read and write.
PackageTables == {"public.conversation_history", "public.services", "public.info"}

\* Most callers inside get_global_connector() at a time.
MaxCallers == 2
Callers == 1..MaxCallers
Outside == [pc |-> "outside", built |-> NoConnector, handle |-> NoConnector]

NoCall == Call("none", <<>>, "ok", NoVal, <<>>)

Environments == [url : EnvValues, key : EnvValues]
EnvSet == [url |-> PyStr(<<"e">>), key |-> PyStr(<<"e">>)]
EnvNoKey == [url |-> PyStr(<<"e">>), key |-> PyNone]

\* The state after import: no connector yet, nothing called; the environment
\* is one of E, the store has the tables of one of TT and they hold one of CT,
\* ST and IT.
StartOn(E, CT, ST, IT, TT) ==
    /\ env \in E
    /\ global_connector = NoConnector
    /\ created = <<>>
    /\ local = NoConnector
    /\ conv = <<>>
    /\ chatbot_conv \in CT
    /\ next_id = 1
    /\ services \in ST
    /\ info \in IT
    /\ tables \in TT
    /\ threads = [t \in Callers |-> Outside]
    /\ last = NoCall

\* The same, on a store that has the tables of the package.
Start(E, CT, ST, IT) == StartOn(E, CT, ST, IT, {PackageTables})

ConvNext ==
    \/ GetConversationHistory
    \/ AddConversationHistory
    \/ GetConversationBySession
    \/ DeleteConversationHistory

ServicesNext ==
    \/ GetServices
    \/ GetServiceById
    \/ GetServicesByCategory
    \/ SearchServicesByName
    \/ GetActiveServices
    \/ GetServiceCategories
    \/ GetServicesSummary

InfoNext ==
    \/ GetInfo
    \/ GetInfoField

ClientNext ==
    \/ Construct
    \/ TestConnection

\* Every accessor of the package and the probe of the global connector, one
\* caller.
Init == Start(Environments, {<<>>}, {SubSeq(ServicePool, 1, 3)}, {<<FullInfo>>})

Next ==
    \/ ConvNext
    \/ ServicesNext
    \/ InfoNext
    \/ TestConnection

Spec == Init /\ [][Next]_vars

\* The conversation accessors alone.
InitConv == Start({EnvSet, EnvNoKey}, {<<>>}, {<<>>}, {<<>>})

SpecConv == InitConv /\ [][ConvNext]_vars

\* The info accessors alone, over every environment and info table.
InitInfo == Start(Environments, {<<>>}, {<<>>}, InfoTables)

SpecInfo == InitInfo /\ [][InfoNext]_vars

\* The services accessors alone, over every services table.
InitServices == Start({EnvSet, EnvNoKey}, {<<>>}, ServiceTables \cup ExampleTables, {<<>>})

ServicesWideNext ==
    \/ GetServicesOf(FilterArgs \cup PatternFilterArgs)
    \/ GetServiceById
    \/ GetServicesByCategory
    \/ SearchServicesByNameOf(NameArgs \cup ExampleNameArgs)
    \/ GetActiveServices
    \/ GetServiceCategories
    \/ GetServicesSummary

SpecServices == InitServices /\ [][ServicesWideNext]_vars

\* The connection provider used directly.
InitClient == Start(Environments, {<<>>}, {<<>>}, {<<>>})

SpecClient == InitClient /\ [][ClientNext]_vars

\* Every operation of the package in a process whose environment lacks a
\* credential.
EnvMissing == {e \in Environments : ~Truthy(e.url) \/ ~Truthy(e.key)}

InitConfig == Start(EnvMissing, {<<>>}, {<<>>}, {<<FullInfo>>})

ConfigNext ==
    \/ ClientNext
    \/ ConvNext
    \/ ServicesNext
    \/ InfoNext

SpecConfig == InitConfig /\ [][ConfigNext]_vars

\* --------------------------- client.py: get_global_connector, step by step
\* Mutant: the check-then-set under a lock, a caller waiting while another is
\* between its check and its assignment.
MayCheckLocked(t) ==
    /\ threads[t].pc = "check"
    /\ \A u \in Callers \ {t} : threads[u].pc \notin {"construct", "assign"}

\* A caller that has entered get_global_connector() evaluates
\* "_global_connector is None" without waiting for anything.
MayCheck(t) == threads[t].pc = "check"

\* A caller enters get_global_connector().
Enter(t) ==
    /\ threads[t].pc \in {"outside", "returned", "raised"}
    /\ threads' = [threads EXCEPT ![t] = [Outside EXCEPT !.pc = "check"]]
    /\ UNCHANGED <<tables, env, global_connector, created, local, conv, chatbot_conv,
                   next_id, services, info, last>>

\* "if _global_connector is None:"
CheckGlobal(t) ==
    /\ MayCheck(t)
    /\ threads' = [threads EXCEPT ![t].pc =
                       IF global_connector = NoConnector THEN "construct" ELSE "return"]
    /\ UNCHANGED <<tables, env, global_connector, created, local, conv, chatbot_conv,
                   next_id, services, info, last>>

\* "SupabaseConnector()": the right-hand side of the assignment.
ConstructConnector(t) ==
    /\ threads[t].pc = "construct"
    /\ LET c == SupabaseConnector(PyNone, PyNone, env, created)
       IN /\ created' = c.created
          /\ threads' = [threads EXCEPT ![t].pc = IF c.out = "ok" THEN "assign" ELSE "raised",
                                        ![t].built = c.conn]
    /\ UNCHANGED <<tables, env, global_connector, local, conv, chatbot_conv, next_id,
                   services, info, last>>

\* "_global_connector = ..."
AssignGlobal(t) ==
    /\ threads[t].pc = "assign"
    /\ global_connector' = threads[t].built
    /\ threads' = [threads EXCEPT ![t].pc = "return"]
    /\ UNCHANGED <<tables, env, created, local, conv, chatbot_conv, next_id, services,
                   info, last>>

\* "return _global_connector"
ReturnGlobal(t) ==
    /\ threads[t].pc = "return"
    /\ threads' = [threads EXCEPT ![t].pc = "returned", ![t].handle = global_connector]
    /\ UNCHANGED <<tables, env, global_connector, created, local, conv, chatbot_conv,
                   next_id, services, info, last>>

RaceNext ==
    \E t \in Callers :
        \/ Enter(t)
        \/ CheckGlobal(t)
        \/ ConstructConnector(t)
        \/ AssignGlobal(t)
        \/ ReturnGlobal(t)

\* Callers in several threads of one process, each calling
\* get_global_connector() again and again.
InitRace == Start({EnvSet, EnvNoKey}, {<<>>}, {<<>>}, {<<>>})

SpecRace == InitRace /\ [][RaceNext]_vars

\* ------------------------------------- services.py: a store with other clients
\* Another client of the store inserts, updates or deletes services.
OtherClientWrites ==
    /\ services' \in (ServiceTables \cup ExampleTables) \ {services}
    /\ UNCHANGED <<tables, threads, env, global_connector, created, local, conv,
                   chatbot_conv, next_id, info, last>>

\* get_services_summary() on a store with other clients: get_services()
\* reads the table as it is, get_service_categories() the table as the other
\* clients have left it by then.
GetServicesSummaryShared ==
    \E ro1 \in RemoteOutcomes, ro2 \in RemoteOutcomes,
       later \in {services} \cup ServiceTables \cup ExampleTables :
        \E res \in ServicesResults(services, NoFilter) :
            LET r == get_services_summary(global_connector, created, later, ro1, res, ro2)
            IN /\ global_connector' = r.g
               /\ created' = r.created
               /\ last' = Call("get_services_summary", <<>>, r.out, r.val, r.reqs)
               /\ services' = later
               /\ UNCHANGED <<tables, threads, env, local, conv, chatbot_conv, next_id, info>>

SharedNext ==
    \/ OtherClientWrites
    \/ GetServicesSummaryShared

InitShared == Start({EnvSet, EnvNoKey}, {<<>>}, ServiceTables, {<<>>})

SpecShared == InitShared /\ [][SharedNext]_vars

UtilsNext ==
    \/ CheckTableExists
    \/ GetTableInfo
    \/ ListAvailableTables
    \/ CreateConversationHistoryTable

\* The helpers alone, over stores that have and that lack the tables asked
\* about.
StoreTables ==
    {PackageTables, PackageTables \ {"public.conversation_history"},
     PackageTables \cup {"public.users", "public.test"}, {}}

InitUtils ==
    /\ StartOn({EnvSet, EnvNoKey}, {<<>>}, {<<>>, SubSeq(ServicePool, 1, 2)}, {<<>>},
               StoreTables)
    /\ "public.services" \notin tables => services = <<>>

SpecUtils == InitUtils /\ [][UtilsNext]_vars

\* Every function of the package, the helpers included, with and without the
\* key in the environment.
InitPackage ==
    Start({EnvSet, EnvNoKey}, {<<>>}, {SubSeq(ServicePool, 1, 3)}, {<<FullInfo>>})

PackageNext ==
    \/ Next
    \/ UtilsNext

SpecPackage == InitPackage /\ [][PackageNext]_vars

\* ------------------------------------------------------------------ claims
\* An identifier that is missing, empty or made of whitespace only.
Blank(x) == x.t = "none" \/ (x.t = "str" /\ \A i \in 1..Len(x.v) : x.v[i] = " ")

\* The text of x without its leading and trailing spaces, found by position:
\* the part from the first to the last character that is no space.
Trimmed(s) ==
    LET solid == {i \in 1..Len(s) : s[i] # " "}
    IN IF solid = {} THEN <<>>
       ELSE SubSeq(s, CHOOSE i \in solid : \A j \in solid : i <= j,
                      CHOOSE i \in solid : \A j \in solid : i >= j)

Failed(c) == \E i \in 1..Len(c.reqs) : c.reqs[i].outcome # "ok"

\* The call's argument violates the precondition of its operation.
ViolatesPrecondition(c) ==
    CASE c.op = "add_conversation_history" -> Blank(c.args[1]) \/ c.args[2].t # "dict"
      [] c.op \in {"get_conversation_by_session", "delete_conversation_history",
                   "get_services_by_category", "search_services_by_name"} -> Blank(c.args[1])
      [] c.op = "get_service_by_id" -> ~(c.args[1].t = "int" /\ c.args[1].v > 0)
      [] OTHER -> FALSE

\* C1: a call of add_conversation_history, get_conversation_by_session,
\* delete_conversation_history, get_service_by_id, get_services_by_category or
\* search_services_by_name whose argument violates its precondition fails with
\* ValueError, issues no remote request and leaves the global connector, the
\* created clients and every table as they were.
C1_ValidationBeforeAnyCall ==
    [][ViolatesPrecondition(last') =>
         /\ last'.out = "ValueError"
         /\ last'.reqs = <<>>
         /\ UNCHANGED <<global_connector, created, conv, chatbot_conv, next_id,
                        services, info>>]_vars

C1_Witness ==
    /\ last.op = "search_services_by_name"
    /\ last.args[1] = PyStr(<<" ">>)
    /\ last.out = "ValueError"
    /\ global_connector = NoConnector

\* C2: a successful add_conversation_history(session_id, message) followed by a
\* successful get_conversation_by_session of the same id in any padding returns
\* a list holding a record with exactly the trimmed id and the appended message.
C2_RoundTrip ==
    [][(/\ last.op = "add_conversation_history"
        /\ last.out = "ok"
        /\ last'.op = "get_conversation_by_session"
        /\ last'.out = "ok"
        /\ Trimmed(last'.args[1].v) = Trimmed(last.args[1].v))
       => \E i \in 1..Len(last'.val) :
              /\ last'.val[i].session_id = Trimmed(last.args[1].v)
              /\ last'.val[i].message = last.args[2].v]_vars

\* A lookup under a padded spelling that returned a row stored under the
\* trimmed id.
C2_Witness ==
    /\ last.op = "get_conversation_by_session"
    /\ last.out = "ok"
    /\ last.args[1] = PyStr(<<" ", "a", " ", "b", " ">>)
    /\ \E i \in 1..Len(last.val) :
           last.val[i].session_id = <<"a", " ", "b">> /\ last.val[i].message = "m2"

\* C3: a successful get_conversation_history returns exactly the records stored
\* in the table add_conversation_history writes to.
C3_HistoryIsWhatWasAppended ==
    (last.op = "get_conversation_history" /\ last.out = "ok") => last.val = conv

\* C4: delete_conversation_history returns True whenever its request succeeds,
\* whether or not rows matched, and a successful get_conversation_by_session of
\* the same trimmed id right after it returns the empty list.
C4_DeleteThenEmpty ==
    [][/\ (/\ last'.op = "delete_conversation_history"
           /\ last'.reqs # <<>>
           /\ ~Failed(last'))
          => (last'.out = "ok" /\ last'.val = TRUE)
       /\ (/\ last.op = "delete_conversation_history"
           /\ last.out = "ok"
           /\ last'.op = "get_conversation_by_session"
           /\ last'.out = "ok"
           /\ Trimmed(last'.args[1].v) = Trimmed(last.args[1].v))
          => last'.val = <<>>]_vars

\* A successful delete under a padded id that removed a row and left the row
\* of another session.
C4_Witness ==
    /\ last.op = "delete_conversation_history"
    /\ last.args[1] = PyStr(<<" ", "a">>)
    /\ last.out = "ok"
    /\ last.val = TRUE
    /\ next_id = 3
    /\ Len(conv) = 1

RemoteAccessors ==
    {"get_conversation_history", "add_conversation_history", "get_conversation_by_session",
     "delete_conversation_history", "get_services", "get_service_categories",
     "get_services_summary"}

InfoAccessors == {"get_info", "get_info_field"}

\* C6: get_info and the field accessors never raise, and return None when the
\* info table is empty, when the request fails and when the connector could
\* not be constructed.
C6_InfoNeverRaises ==
    last.op \in InfoAccessors =>
        /\ last.out = "ok"
        /\ (info = <<>> \/ Failed(last) \/ global_connector = NoConnector)
              => last.val = PyNone

\* A field accessor answering None because the connector could not be built.
C6_Witness ==
    /\ last.op = "get_info_field"
    /\ last.out = "ok"
    /\ last.val = PyNone
    /\ last.reqs = <<>>
    /\ global_connector = NoConnector
    /\ info # <<>>

\* C7: with a row in the info table and the request answered, get_info returns
\* the first row and a field accessor the value of its field in that row, None
\* when the row has no such field.
C7_FirstRowAndProjection ==
    (last.op \in InfoAccessors /\ last.reqs # <<>> /\ ~Failed(last) /\ info # <<>>) =>
        /\ last.op = "get_info" => last.val = info[1]
        /\ last.op = "get_info_field" =>
               last.val = IF last.args[1] \in DOMAIN info[1]
                          THEN info[1][last.args[1]] ELSE PyNone

\* The phone accessor on a table whose first row has no phone, a later row
\* having one.
C7_Witness ==
    /\ last.op = "get_info_field"
    /\ last.args = <<"phone">>
    /\ ~Failed(last)
    /\ last.reqs # <<>>
    /\ info = <<PartialInfo, FullInfo>>
    /\ last.val = PyNone

\* The credential a constructor call resolves: the argument when it is a
\* non-empty string, the environment's value otherwise.
Resolved(arg, from_env) == IF arg.t = "str" /\ Len(arg.v) > 0 THEN arg ELSE from_env
Missing(x) == x.t = "none" \/ (x.t = "str" /\ Len(x.v) = 0)

\* C8: SupabaseConnector(url, key) fails with ValueError exactly when the
\* resolved url or the resolved key is empty or missing, creating no client;
\* otherwise it creates one client, with the resolved pair.
C8_ConstructorCredentials ==
    [][last'.op = "SupabaseConnector" =>
         LET u == Resolved(last'.args[1], env.url)
             k == Resolved(last'.args[2], env.key)
         IN IF Missing(u) \/ Missing(k)
            THEN last'.out = "ValueError" /\ created' = created
            ELSE /\ last'.out = "ok"
                 /\ created' = Append(created, [url |-> u, key |-> k])
                 /\ last'.val.url = u
                 /\ last'.val.key = k]_vars

\* An empty url argument falling back on the environment beside an explicit key.
C8_Witness ==
    /\ last.op = "SupabaseConnector"
    /\ last.args = <<PyStr(<<>>), PyStr(<<"x">>)>>
    /\ last.out = "ok"
    /\ created # <<>>
    /\ created[Len(created)] = [url |-> PyStr(<<"e">>), key |-> PyStr(<<"x">>)]

\* C9: test_connection never raises; it returns True when the probe call
\* succeeds and False when it fails in any way.
C9_ProbeIsBoolean ==
    last.op = "test_connection" =>
        /\ last.out = "ok"
        /\ last.val = (last.reqs[1].outcome = "ok")

C9_Witness ==
    /\ last.op = "test_connection"
    /\ last.reqs[1].outcome = "timeout"
    /\ last.out = "ok"
    /\ last.val = FALSE

\* C10: an accessor creates a client only while there is no global connector,
\* and that client becomes the global connector; once set, the global
\* connector is never replaced, reset or changed.
C10_SingleGlobalConnector ==
    [][/\ global_connector # NoConnector => global_connector' = global_connector
       /\ (created' # created /\ last'.op # "SupabaseConnector") =>
              /\ global_connector = NoConnector
              /\ Len(created') = Len(created) + 1
              /\ global_connector'.id = Len(created')]_vars

\* Several accessors have used the connector the first of them constructed.
C10_Witness ==
    /\ global_connector # NoConnector
    /\ Len(created) = 1
    /\ conv # <<>>
    /\ last.op = "get_services_summary"
    /\ last.out = "ok"

RaisingAccessors ==
    RemoteAccessors \cup {"get_service_by_id", "get_services_by_category",
                          "search_services_by_name", "get_active_services"}

\* The call c had to construct a connector and the credentials it resolves
\* are missing.
ConstructsWithoutCredentials(c) ==
    IF c.op = "SupabaseConnector"
    THEN Missing(Resolved(c.args[1], env.url)) \/ Missing(Resolved(c.args[2], env.key))
    ELSE /\ c.op \in RaisingAccessors \cup InfoAccessors
         /\ ~ViolatesPrecondition(c)
         /\ Missing(env.url) \/ Missing(env.key)

\* C11 as stated: every operation that constructs the connection while the
\* credentials are missing ends in the constructor's error kind (ValueError),
\* not in RuntimeError and not in an ordinary result.
C11_ConfigurationErrorSurfaces ==
    ConstructsWithoutCredentials(last) => last.out = "ValueError"

\* C11, amended: while the credentials are missing, SupabaseConnector() fails
\* with ValueError, a conversation or services accessor fails with
\* RuntimeError and no value, and an info accessor returns None; none of them
\* sends a request or creates a client, and the global connector stays unset.
C11_MissingCredentialsByOperation ==
    [][ConstructsWithoutCredentials(last') =>
         /\ last'.reqs = <<>>
         /\ created' = created
         /\ global_connector' = NoConnector
         /\ last'.op = "SupabaseConnector" =>
                last'.out = "ValueError" /\ local' = local
         /\ last'.op \in RaisingAccessors =>
                last'.out = "RuntimeError" /\ last'.val = NoVal
         /\ last'.op \in InfoAccessors =>
                last'.out = "ok" /\ last'.val = PyNone]_vars

\* The summary failing for want of a key in the environment although the
\* caller has built a connector of its own.
C11_Witness ==
    /\ last.op = "get_services_summary"
    /\ last.out = "RuntimeError"
    /\ last.reqs = <<>>
    /\ env.key = PyNone
    /\ local # NoConnector
    /\ global_connector = NoConnector

\* The call asks for active services: get_services with is_active=True,
\* get_active_services, or a by-category or by-name call with is_active=True.
AsksForActive(c) ==
    \/ c.op = "get_services" /\ c.args[1].is_active = PyBool(TRUE)
    \/ c.op = "get_active_services"
    \/ c.op \in {"get_services_by_category", "search_services_by_name"}
          /\ c.args[2] = PyBool(TRUE)

\* C12: every record a call asking for active services returns has
\* is_active = true, whatever the services table holds.
C12_ActiveOnly ==
    (AsksForActive(last) /\ last.out = "ok") =>
        \A i \in 1..Len(last.val) : last.val[i].is_active = TRUE

\* get_active_services() answering with some rows of a table that also holds
\* inactive ones.
C12_Witness ==
    /\ last.op = "get_active_services"
    /\ last.args = <<PyNone>>
    /\ last.out = "ok"
    /\ last.val # <<>>
    /\ Len(last.val) < Len(services)

\* The same letter in either case, any other character itself.
SameLetter(a, b) ==
    \/ a = b
    \/ \E i \in 3..28 : {a, b} = {Ascii[i], Ascii[i + 27]}

\* n occurs in s as a substring, case ignored.
ContainsIgnoringCase(s, n) ==
    \E k \in 0..(Len(s) - Len(n)) : \A i \in 1..Len(n) : SameLetter(s[k + i], n[i])

\* The row satisfies every filter that is present, as the filters are
\* documented.
Satisfies(r, f) ==
    /\ f.service_id.t # "none" => r.id = f.service_id.v
    /\ f.name.t # "none" => ContainsIgnoringCase(r.name, f.name.v)
    /\ f.category.t # "none" => r.category = PyStr(f.category.v)
    /\ f.is_active.t # "none" => r.is_active = f.is_active.v

AscendingByName(rows) ==
    \A i, j \in 1..Len(rows) : i < j => ~StrLess(rows[j].name, rows[i].name)

\* The rows of a sequence, as a set.
RowSet(rows) == {rows[i] : i \in 1..Len(rows)}

\* C13: a successful get_services without a limit returns exactly the rows of
\* the services table that satisfy every filter present (id equal, name
\* containing the argument without regard to case, category equal, is_active
\* equal), each once, in ascending order of name; with no filter, all rows.
C13_ExactlyTheMatchingRows ==
    (last.op = "get_services" /\ last.out = "ok" /\ last.args[1].limit = PyNone) =>
        /\ RowSet(last.val) = {r \in RowSet(services) : Satisfies(r, last.args[1])}
        /\ Len(last.val) = Cardinality(RowSet(last.val))
        /\ AscendingByName(last.val)

\* A search for "massage" or "MASSAGE" that the store answered.
MassageSearch(c) ==
    /\ c.op = "search_services_by_name"
    /\ c.args[1] \in {PyStr(<<"m", "a", "s", "s", "a", "g", "e">>),
                       PyStr(<<"M", "A", "S", "S", "A", "G", "E">>)}
    /\ c.out = "ok"

NamedDeepTissueMassage(r) == r.name = DeepTissueMassage(TRUE).name

\* C14 as stated: whatever the store holds, search_services_by_name("massage")
\* and search_services_by_name("MASSAGE"), called with the name alone, return
\* every record named "Deep Tissue Massage".
C14_MassageFound ==
    (MassageSearch(last) /\ last.args[2] = PyBool(TRUE)) =>
        \A r \in RowSet(services) : NamedDeepTissueMassage(r) => r \in RowSet(last.val)

\* C14, amended: search_services_by_name("massage") and ("MASSAGE") return
\* every record named "Deep Tissue Massage" whose is_active equals the
\* is_active argument (true when the name is passed alone).
C14_MassageFoundWhenStatusAgrees ==
    MassageSearch(last) =>
        \A r \in RowSet(services) :
            (NamedDeepTissueMassage(r) /\ r.is_active = last.args[2].v)
                => r \in RowSet(last.val)

\* The upper-case search finding the active record beside another massage.
C14_Witness ==
    /\ MassageSearch(last)
    /\ last.args = <<PyStr(<<"M", "A", "S", "S", "A", "G", "E">>), PyBool(TRUE)>>
    /\ DeepTissueMassage(TRUE) \in RowSet(last.val)
    /\ Len(last.val) = 2

\* The row is one the by-category or by-name call c asks about: its category
\* equals the trimmed argument, or its name contains the trimmed argument.
Wanted(r, c) ==
    IF c.op = "get_services_by_category"
    THEN r.category = PyStr(Trimmed(c.args[1].v))
    ELSE ContainsIgnoringCase(r.name, Trimmed(c.args[1].v))

\* C15: is_active on get_services_by_category and search_services_by_name
\* means "only active services": with True every record returned is active
\* and every active record asked about is returned; with False every record
\* asked about is returned, the active and the inactive ones.
C15_FlagIncludesOnlyActive ==
    (last.op \in {"get_services_by_category", "search_services_by_name"} /\ last.out = "ok") =>
        IF last.args[2] = PyBool(TRUE)
        THEN /\ \A i \in 1..Len(last.val) : last.val[i].is_active = TRUE
             /\ \A r \in RowSet(services) :
                    (Wanted(r, last) /\ r.is_active = TRUE) => r \in RowSet(last.val)
        ELSE \A r \in RowSet(services) : Wanted(r, last) => r \in RowSet(last.val)

\* C16: get_service_by_id fails with ValueError for every id that is not a
\* positive integer; for a positive id it does not fail when the store
\* answers, and returns the record of that id if the table holds one, None
\* if it holds none.
C16_ByIdValidatesAndFinds ==
    last.op = "get_service_by_id" =>
        LET id == last.args[1]
            found == {r \in RowSet(services) : r.id = id.v}
        IN IF ~(id.t = "int" /\ id.v > 0)
           THEN last.out = "ValueError"
           ELSE /\ (last.reqs # <<>> /\ ~Failed(last)) => last.out = "ok"
                /\ last.out = "ok" =>
                       IF found = {} THEN last.val = PyNone ELSE last.val \in found

\* A positive id no record has, answered None without error.
C16_Witness ==
    /\ last.op = "get_service_by_id"
    /\ last.args = <<PyInt(9)>>
    /\ last.out = "ok"
    /\ last.val = PyNone
    /\ services # <<>>

SummaryAnswered(c) ==
    c.op = "get_services_summary" /\ Len(c.reqs) = 2 /\ ~Failed(c)

\* The positions of the active rows of the services table.
ActiveRows == {i \in 1..Len(services) : services[i].is_active = TRUE}

\* C18: in every summary, total_services is the number of rows of the
\* services table, active_services the number of rows whose is_active is
\* true, 0 <= active_services <= total_services, and inactive_services is
\* total_services - active_services.
C18_CountsAddUp ==
    (last.op = "get_services_summary" /\ last.out = "ok") =>
        /\ last.val.total_services = Len(services)
        /\ last.val.active_services = Cardinality(ActiveRows)
        /\ 0 <= last.val.active_services
        /\ last.val.active_services <= last.val.total_services
        /\ last.val.inactive_services = last.val.total_services - last.val.active_services

\* A summary of a table holding both active and inactive services.
C18_Witness ==
    /\ last.op = "get_services_summary"
    /\ last.out = "ok"
    /\ last.val.total_services = 3
    /\ last.val.active_services = 1
    /\ last.val.inactive_services = 2

\* The average is a number and that number is 0: a quotient with a divisor
\* that is not 0 and a dividend that is.
IsZero(q) == q.den # 0 /\ q.num = 0

\* C19: get_services_summary on a services table without an active record,
\* the empty table included, does not fail when the store answers, and
\* returns average_price = 0 and average_duration = 0.
C19_NoActiveServiceAveragesZero ==
    (SummaryAnswered(last) /\ ActiveRows = {}) =>
        /\ last.out = "ok"
        /\ IsZero(last.val.average_price)
        /\ IsZero(last.val.average_duration)

\* A summary of a table whose only services are inactive and priced.
C19_Witness ==
    /\ SummaryAnswered(last)
    /\ last.out = "ok"
    /\ services # <<>>
    /\ ActiveRows = {}
    /\ \E i \in 1..Len(services) : services[i].price = PyInt(40)
    /\ IsZero(last.val.average_price)

\* The number a record holds in a field, 0 when the field is null or missing.
Amount(r, field) ==
    IF field \in DOMAIN r /\ r[field].t \in {"int", "float"} THEN r[field].v ELSE 0

\* The sum of a field over the rows at the positions I.
RECURSIVE Total(_, _, _)
Total(rows, I, field) ==
    IF I = {} THEN 0
    ELSE LET i == CHOOSE j \in I : TRUE
         IN Amount(rows[i], field) + Total(rows, I \ {i}, field)

\* The services table with the price and the duration of row i set to x.
Repriced(i, x) == [services EXCEPT ![i].price = x, ![i].duration_minutes = x]

\* C20: when the table holds an active record, average_price times
\* active_services is the sum of price over the active records alone, a null
\* or missing price counting 0, and likewise average_duration with
\* duration_minutes; the averages of the table with another price and
\* duration on an inactive record are the same.
C20_AveragesOverActiveOnly ==
    (last.op = "get_services_summary" /\ last.out = "ok" /\ ActiveRows # {}) =>
        LET s == last.val
        IN /\ s.average_price.den # 0
           /\ s.average_price.num * s.active_services
                  = Total(services, ActiveRows, "price") * s.average_price.den
           /\ s.average_duration.den # 0
           /\ s.average_duration.num * s.active_services
                  = Total(services, ActiveRows, "duration_minutes") * s.average_duration.den
           /\ \A i \in (1..Len(services)) \ ActiveRows :
                  \A x \in {PyNone, PyInt(0), PyInt(100)} :
                      LET t == Summary(Repriced(i, x), s.categories)
                      IN /\ t.average_price = s.average_price
                         /\ t.average_duration = s.average_duration

\* A summary of a table with a priced inactive service beside two active
\* ones, one of them without a duration.
C20_Witness ==
    /\ last.op = "get_services_summary"
    /\ last.out = "ok"
    /\ Cardinality(ActiveRows) = 2
    /\ \E i \in (1..Len(services)) \ ActiveRows : services[i].price = PyInt(40)
    /\ \E i \in ActiveRows : services[i].duration_minutes = PyNone
    /\ last.val.average_price = [num |-> 100, den |-> 2]
    /\ last.val.average_duration = [num |-> 60, den |-> 2]

Unknown == PyStr(<<"U", "n", "k", "n", "o", "w", "n">>)

\* The bucket a record belongs to: its category, "Unknown" when the field is
\* absent or null.
Bucket(r) ==
    IF "category" \notin DOMAIN r \/ r.category = PyNone THEN Unknown ELSE r.category

\* C21: services_by_category of a summary counts every record of the table
\* under its category, a record without a category (field absent or null)
\* under "Unknown"; there are no other keys.
C21_CountedUnderCategoryOrUnknown ==
    (last.op = "get_services_summary" /\ last.out = "ok") =>
        LET rows == 1..Len(services)
            keys == {Bucket(services[i]) : i \in rows}
        IN last.val.services_by_category =
               [k \in keys |-> Cardinality({i \in rows : Bucket(services[i]) = k})]

\* C22: for every valid session_id delete_conversation_history raises nothing
\* and returns a boolean, True if the deletion succeeded and False if it did
\* not.
C22_DeleteReturnsBoolean ==
    (last.op = "delete_conversation_history" /\ ~Blank(last.args[1])) =>
        /\ last.out = "ok"
        /\ last.val = (last.reqs # <<>> /\ ~Failed(last))

\* C23: create_conversation_history_table creates the table when the store
\* does not have it: after it returns True the table exists, and a call that
\* reaches a store without the table sends it a request that creates the
\* table.
C23_CreatesMissingTable ==
    last.op = "create_conversation_history_table" =>
        /\ last.val = TRUE => "public.conversation_history" \in tables
        /\ (global_connector # NoConnector /\ "public.conversation_history" \notin tables)
              => \E i \in 1..Len(last.reqs) : last.reqs[i].verb = "create table"

\* The filter and the limit of a get_services or get_active_services call.
FilterOf(c) ==
    IF c.op = "get_services" THEN c.args[1]
    ELSE ServiceFilter(PyNone, PyNone, PyNone, PyBool(TRUE), c.args[1])

Min(a, b) == IF a <= b THEN a ELSE b

\* C24: a successful get_services or get_active_services with a limit n >= 0
\* returns the first min(n, k) records of a k-record result that the same
\* call without the limit can return: min(n, k) records in ascending order of
\* name, none of the records left out having a smaller name than one returned.
C24_LimitIsPrefixOfOrdered ==
    (/\ last.op \in {"get_services", "get_active_services"}
     /\ last.out = "ok"
     /\ FilterOf(last).limit # PyNone) =>
        LET n == FilterOf(last).limit.v
            unlimited == ServicesResults(services, [FilterOf(last) EXCEPT !.limit = PyNone])
        IN /\ \E u \in unlimited : last.val = SubSeq(u, 1, Min(n, Len(u)))
           /\ AscendingByName(last.val)
           /\ \A u \in unlimited : \A r \in RowSet(u) \ RowSet(last.val) :
                  \A i \in 1..Len(last.val) : ~StrLess(r.name, last.val[i].name)

\* Under limit 1 the service that comes back is the first by name, not the
\* first row of the table.
C24_Witness ==
    /\ last.op = "get_active_services"
    /\ last.args = <<PyInt(1)>>
    /\ last.out = "ok"
    /\ Len(last.val) = 1
    /\ Len(services) >= 2
    /\ last.val[1] # services[1]
    /\ StrLess(last.val[1].name, services[1].name)

\* C25: a successful get_service_categories returns a list in strictly
\* ascending order (so without duplicates), without an empty entry, that
\* holds a value exactly when some row of the services table has it as its
\* non-empty category.
C25_CategoriesSortedDistinct ==
    (last.op = "get_service_categories" /\ last.out = "ok") =>
        /\ \A i, j \in 1..Len(last.val) : i < j => StrLess(last.val[i], last.val[j])
        /\ \A i \in 1..Len(last.val) : last.val[i] # <<>>
        /\ {last.val[i] : i \in 1..Len(last.val)} =
               {r.category.v : r \in {x \in RowSet(services) :
                                          x.category.t = "str" /\ x.category.v # <<>>}}

\* Two categories listed for three services, two of which share one.
C25_Witness ==
    /\ last.op = "get_service_categories"
    /\ last.out = "ok"
    /\ last.val = <<Hair, Spa>>
    /\ Len(services) = 3
    /\ \A i \in 1..3 : services[i].category # PyNone

\* C26 as stated: every operation sends at most one request per call, except
\* get_services_summary, which sends two when it succeeds and never more; a
\* call rejected by validation sends none.
C26_AtMostOneRequest ==
    /\ last.op # "get_services_summary" => Len(last.reqs) <= 1
    /\ last.op = "get_services_summary" =>
           Len(last.reqs) <= 2 /\ (last.out = "ok" => Len(last.reqs) = 2)
    /\ last.out = "ValueError" => last.reqs = <<>>

\* C26, amended: list_available_tables sends one request for each of its nine
\* candidate tables when the connector is available; get_services_summary
\* sends at most two, one for the records and, only after that succeeded, one
\* for the categories, and exactly two when it succeeds; every other
\* operation sends at most one; a call rejected by validation and a call
\* that cannot construct the connector send none.
C26_RequestsPerOperation ==
    /\ last.op \notin {"get_services_summary", "list_available_tables"} =>
           Len(last.reqs) <= 1
    /\ last.op = "get_services_summary" =>
           /\ Len(last.reqs) <= 2
           /\ last.out = "ok" => Len(last.reqs) = 2
           /\ Len(last.reqs) = 2 =>
                  /\ last.reqs[1].outcome = "ok"
                  /\ last.reqs[1].verb = "select *"
                  /\ last.reqs[2].verb = "select category"
    /\ last.op = "list_available_tables" =>
           /\ Len(last.reqs) \in {0, Len(common_tables)}
           /\ global_connector # NoConnector => Len(last.reqs) = Len(common_tables)
    /\ last.out = "ValueError" => last.reqs = <<>>
    /\ (global_connector = NoConnector /\ last.op # "test_connection") => last.reqs = <<>>

\* list_available_tables() having asked for all nine tables and found one.
C26_Witness ==
    /\ last.op = "list_available_tables"
    /\ Len(last.reqs) = 9
    /\ last.val = <<"public.conversation_history">>

\* C27: the first use of the global connector is not guarded: a caller at
\* the test "_global_connector is None" is never made to wait, whatever the
\* other callers are doing, so more than one connector can be constructed
\* (never more than there are callers), and every caller that returns holds
\* one of the connectors constructed.
C27_FirstUseUnguarded ==
    /\ \A t \in Callers : threads[t].pc = "check" => ENABLED CheckGlobal(t)
    /\ Len(created) <= Cardinality(Callers)
    /\ \A t \in Callers :
           threads[t].pc = "returned" =>
               \E i \in 1..Len(created) :
                   /\ threads[t].handle # NoConnector
                   /\ threads[t].handle.id = i

\* Two connectors were constructed and two callers have returned with
\* different ones.
C27_Witness ==
    /\ Len(created) > 1
    /\ \E t, u \in Callers :
           /\ threads[t].pc = "returned"
           /\ threads[u].pc = "returned"
           /\ threads[t].handle # NoConnector
           /\ threads[u].handle # NoConnector
           /\ threads[t].handle # threads[u].handle

\* The counts of a bucket table added up.
RECURSIVE SumOfCounts(_, _)
SumOfCounts(counts, keys) ==
    IF keys = {} THEN 0
    ELSE LET k == CHOOSE x \in keys : TRUE
         IN counts[k] + SumOfCounts(counts, keys \ {k})

\* C29: in every result of get_services_summary() the counts of
\* services_by_category add up to total_services, every count is at least
\* one, and the total is the number of rows of the table.
C29_CountsSumToTotal ==
    SummaryAnswered(last) =>
        /\ SumOfCounts(last.val.services_by_category,
                       DOMAIN last.val.services_by_category) = last.val.total_services
        /\ \A k \in DOMAIN last.val.services_by_category :
               last.val.services_by_category[k] >= 1
        /\ last.val.total_services = Len(services)

\* A summary of three services in two buckets, one of them the bucket of the
\* services without a category.
C29_Witness ==
    /\ SummaryAnswered(last)
    /\ last.val.total_services = 3
    /\ Cardinality(DOMAIN last.val.services_by_category) = 2
    /\ PyNone \in DOMAIN last.val.services_by_category

\* The operations that read.
ReadOperations ==
    {"get_conversation_history", "get_conversation_by_session", "get_services",
     "get_service_by_id", "get_services_by_category", "search_services_by_name",
     "get_active_services", "get_service_categories", "get_services_summary",
     "get_info", "get_info_field"}

RemoteStore == <<tables, conv, chatbot_conv, services, info>>

\* A request of a call that changes the rows of a table when it succeeds.
Writes(c) ==
    {i \in 1..Len(c.reqs) : c.reqs[i].verb \in {"insert", "delete"} /\ c.reqs[i].outcome = "ok"}

\* C30: a call of a read operation, successful or failed, sends no request
\* that writes and leaves the conversation, services and info tables as they
\* were; the store changes only in a step of add_conversation_history or
\* delete_conversation_history whose request on the conversation table
\* succeeded, and then only the conversation table changes.
C30_ReadsLeaveStoreUnchanged ==
    [][/\ last'.op \in ReadOperations =>
              /\ UNCHANGED RemoteStore
              /\ Writes(last') = {}
       /\ RemoteStore' # RemoteStore =>
              /\ last'.op \in {"add_conversation_history", "delete_conversation_history"}
              /\ last'.out = "ok"
              /\ Writes(last') = {1}
              /\ last'.reqs[1].table = "public.conversation_history"
              /\ UNCHANGED <<tables, chatbot_conv, services, info>>]_vars

\* A session read back in full from a conversation table that still holds
\* the rows returned.
C30_Witness ==
    /\ last.op = "get_conversation_by_session"
    /\ last.out = "ok"
    /\ last.val # <<>>
    /\ \A i \in 1..Len(last.val) : \E j \in 1..Len(conv) : conv[j] = last.val[i]

\* Every entry of categories has a bucket holding at least one service.
CategoriesHaveBuckets(c) ==
    \A i \in 1..Len(c.val.categories) :
        /\ PyStr(c.val.categories[i]) \in DOMAIN c.val.services_by_category
        /\ c.val.services_by_category[PyStr(c.val.categories[i])] >= 1

\* C28 as stated: whatever other clients do to the services table between
\* the two fetches, an answered summary has total_categories equal to the
\* length of categories and a bucket of at least one service for every
\* entry of categories.
C28_ConsistentSnapshot ==
    SummaryAnswered(last) =>
        /\ last.val.total_categories = Len(last.val.categories)
        /\ CategoriesHaveBuckets(last)

\* C28, amended: an answered summary has total_categories equal to the
\* length of categories whatever other clients do; every entry of
\* categories has a bucket of at least one service when the services table
\* is the same at the two fetches.
C28_SnapshotWhenTableUnchanged ==
    [][SummaryAnswered(last') =>
          /\ last'.val.total_categories = Len(last'.val.categories)
          /\ UNCHANGED services => CategoriesHaveBuckets(last')]_vars

\* A summary answered across a write of another client: the categories name
\* one that no counted service has.
C28_Witness ==
    /\ SummaryAnswered(last)
    /\ last.val.total_services >= 1
    /\ ~CategoriesHaveBuckets(last)
=============================================================================
